---------------------------- MODULE Spec2Model ----------------------------
(***************************************************************************)
(* A model of streamlit_app.py: the USD -> CNY/JPY converter.              *)
(*                                                                         *)
(* One run of main() is one Streamlit script run.  It is cut into steps at *)
(* the points where the script reads from its environment (the widgets,    *)
(* the button, the network) or may stop (the validation return, an         *)
(* uncaught exception).                                                    *)
(*                                                                         *)
(* Numbers.  Python floats are modelled as exact decimal fixed-point       *)
(* numbers: an amount is a count of cents (1e-2 USD), a rate a count of    *)
(* 1e-5 units per dollar, and their product a sign, a count of 1e-2 units  *)
(* and a remainder in 1e-7 units.  The binary rounding error of a float    *)
(* product (about 1e-16 relative) is not modelled; the decimal rounding    *)
(* done by the format specifications (.2f, .4f, ,.2f) is.                  *)
(*                                                                         *)
(* Text.  The user-visible texts of the program are Chinese; the strings   *)
(* below are ASCII renderings of them, and the currency symbol U+00A5 is   *)
(* written "Y".                                                            *)
(***************************************************************************)
EXTENDS Integers, Sequences, FiniteSets, TLC

VARIABLES
  pc,               \* position of the current script run in main()
  target_currency,  \* main: value of the selectbox (line 61)
  usd_amount,       \* main: value of the number input (line 68), in cents
  pressed,          \* main: what st.button returned (line 81)
  response,         \* what urlopen / the rate service produced in this run
  rate,             \* main: first component of get_exchange_rate's result
  error_msg,        \* main: second component of get_exchange_rate's result
  converted_amount, \* main: usd_amount * rate (line 90), see FloatMul
  output,           \* the page: the sequence of elements emitted by this run
  calls,            \* number of get_exchange_rate invocations in this run
  attempts,         \* number of urlopen attempts in this run
  saved             \* one earlier finished run, remembered for comparison

vars == <<pc, target_currency, usd_amount, pressed, response, rate, error_msg,
          converted_amount, output, calls, attempts, saved>>

----------------------------------------------------------------------------
(* Python values.  Every value is a record of the same shape so that any   *)
(* two can be compared: t is the Python type, v a number, s a string.      *)

PyNone     == [t |-> "NoneType", v |-> 0, s |-> ""]
PyNum(n)   == [t |-> "float",    v |-> n, s |-> ""]
PyStr(x)   == [t |-> "str",      v |-> 0, s |-> x]
PyDict     == [t |-> "dict",     v |-> 0, s |-> ""]
Unbound    == [t |-> "unbound",  v |-> 0, s |-> ""]

IsNumber(x) == x.t = "float"

\* Python truthiness as used by `if error_msg:` (line 86).
Truthy(x) ==
  CASE x.t = "NoneType" -> FALSE
    [] x.t = "str"      -> x.s # ""
    [] x.t = "float"    -> x.v # 0
    [] OTHER            -> TRUE

----------------------------------------------------------------------------
(* Scales of the fixed-point numbers.                                      *)

RateScale == 10^5     \* a rate counts 1e-5 units per USD

----------------------------------------------------------------------------
(* The selector's options (line 63) and a code outside them, used to       *)
(* exercise default_rates.get(target_currency, 1.0).                       *)

Options  == {"CNY", "JPY"}
AllCodes == Options \cup {"EUR"}

\* The amounts tried, in cents: -5.00, -0.01, 0.00, 0.01, 1.50 and 100.00
\* (the default).
Amounts == {-500, -1, 0, 1, 150, 10000}

\* Rate values a response may carry under the requested code:
\* -7.1, 0, 0.00004, 7.1, 7.12346, 7.2 (equal to the CNY default), 150.25.
\* None of them, and no product of one with an amount above, lies halfway
\* between two displayed values unless it is exactly representable in binary,
\* where the format rounds the tie to even.
LiveRates == {-710000, 0, 4, 710000, 712346, 720000, 15025000}


----------------------------------------------------------------------------
(* Number formatting: what Python's format specifications do to a float.   *)

Digit == <<"0", "1", "2", "3", "4", "5", "6", "7", "8", "9">>

Abs(x) == IF x < 0 THEN -x ELSE x

\* The decimal digits of n >= 0.
RECURSIVE Digits(_)
Digits(n) == IF n < 10 THEN Digit[n + 1]
             ELSE Digits(n \div 10) \o Digit[(n % 10) + 1]

\* The last w decimal digits of n >= 0, zero-padded.
RECURSIVE Pad(_, _)
Pad(n, w) == IF w = 0 THEN ""
             ELSE Pad(n \div 10, w - 1) \o Digit[(n % 10) + 1]

\* The digits of n >= 0 in groups of three (the "," option).
RECURSIVE Grouped(_)
Grouped(n) == IF n < 1000 THEN Digits(n)
              ELSE Grouped(n \div 1000) \o "," \o Pad(n % 1000, 3)

\* A value fl + rem/q (0 <= rem < q) rounded to the nearest integer, ties to
\* even: the rounding ".Nf" does.
RoundHalfEven(fl, rem, q) ==
  IF 2 * rem < q THEN fl
  ELSE IF 2 * rem > q THEN fl + 1
  ELSE IF fl % 2 = 0 THEN fl
  ELSE fl + 1

\* format(x, ".{places}f") or, with grouping, format(x, ",.{places}f"), of
\* the float whose magnitude, rounded to `places` decimals, is m * 10^-places
\* and whose sign bit is neg (a float keeps its sign when it rounds to zero).
FormatFixed(m, neg, places, grouping) ==
  LET ip == m \div 10^places
      fp == m % 10^places
  IN  (IF neg THEN "-" ELSE "")
        \o (IF grouping THEN Grouped(ip) ELSE Digits(ip))
        \o "." \o Pad(fp, places)

\* a * r of an amount a (cents) and a rate r (1e-5): the sign bit, the whole
\* cents of the magnitude and what is left of it, in 1e-7 units.
FloatMul(a, r) ==
  LET rI  == Abs(r) \div RateScale
      rF  == Abs(r) % RateScale
      low == Abs(a) * rF
  IN  [neg   |-> (a < 0) # (r < 0),
       whole |-> Abs(a) * rI + (low \div RateScale),
       frac  |-> low % RateScale]

\* The digits of a fraction f < 10^w without its trailing zeros, at least
\* one digit.
RECURSIVE Trimmed(_, _)
Trimmed(f, w) == IF w > 1 /\ f % 10 = 0 THEN Trimmed(f \div 10, w - 1)
                 ELSE Pad(f, w)

\* str(x) of a float x >= 0 given as a count of 1e-5 ("7.2", "150.0", "1.0").
PyFloatStr(x) == Digits(x \div RateScale) \o "." \o Trimmed(x % RateScale, 5)

----------------------------------------------------------------------------
(* The rate service as seen through urlopen, read() and json.loads         *)
(* (lines 42-44): whether the request came back, whether its body is JSON, *)
(* whether the JSON has "rates", whether "rates" has the requested code,   *)
(* and the value found under it.                                           *)

NetError    == [net |-> "error", json |-> FALSE, hasRates |-> FALSE,
                hasCode |-> FALSE, value |-> PyNone]
NotJSON     == [net |-> "ok", json |-> FALSE, hasRates |-> FALSE,
                hasCode |-> FALSE, value |-> PyNone]
NoRates     == [net |-> "ok", json |-> TRUE, hasRates |-> FALSE,
                hasCode |-> FALSE, value |-> PyNone]
MissingCode == [net |-> "ok", json |-> TRUE, hasRates |-> TRUE,
                hasCode |-> FALSE, value |-> PyNone]
WithValue(x) == [net |-> "ok", json |-> TRUE, hasRates |-> TRUE,
                 hasCode |-> TRUE, value |-> x]

\* JSON values under the code: numbers, null, a string, an object.
JsonValues == {PyNum(n) : n \in LiveRates} \cup {PyNone, PyStr("7.1"), PyDict}

Responses == {NetError, NotJSON, NoRates, MissingCode}
               \cup {WithValue(x) : x \in JsonValues}

NoResponse == [net |-> "none", json |-> FALSE, hasRates |-> FALSE,
               hasCode |-> FALSE, value |-> PyNone]

\* default_rates (lines 26-29), in 1e-5 units.
default_rates == [c \in {"CNY", "JPY"} |->
                    IF c = "CNY" THEN 720000 ELSE 15000000]

\* default_rates.get(target_currency, 1.0) (line 48).
DefaultRate(target) ==
  IF target \in DOMAIN default_rates THEN default_rates[target] ELSE RateScale

\* Whether the try block (lines 42-45) raises: urlopen fails or times out,
\* json.loads rejects the body, data["rates"] or [target_currency] is absent.
LookupRaises(resp) ==
  \/ resp.net # "ok"
  \/ ~resp.json
  \/ ~resp.hasRates
  \/ ~resp.hasCode

\* str(e) of the exception caught at line 46.
ExceptionText(target, resp) ==
  CASE resp.net # "ok"  -> "<urlopen error timed out>"
    [] ~resp.json       -> "Expecting value: line 1 column 1 (char 0)"
    [] ~resp.hasRates   -> "'rates'"
    [] OTHER            -> "'" \o target \o "'"

\* The f-string of line 49.
ErrorMessage(target, resp) ==
  "Failed to get the live rate: " \o ExceptionText(target, resp)
    \o " (default rate " \o PyFloatStr(DefaultRate(target))
    \o " used, for reference only)"

\* get_exchange_rate whose except clause returns the default without a
\* message.
get_exchange_rate_NoMessage(target, resp) ==
  IF LookupRaises(resp)
    THEN <<PyNum(DefaultRate(target)), PyNone>>
    ELSE <<resp.value, PyNone>>

\* get_exchange_rate(target_currency) given what the network produces:
\* the pair (rate, error_message).
get_exchange_rate(target, resp) ==
  IF LookupRaises(resp)
    THEN <<PyNum(DefaultRate(target)), PyStr(ErrorMessage(target, resp))>>
    ELSE <<resp.value, PyNone>>

----------------------------------------------------------------------------
(* The page elements main() emits.                                         *)

Element(kind, text) == [kind |-> kind, text |-> text]

Title      == Element("title", "USD exchange rate converter")
Intro      == Element("write", "Enter a USD amount and choose a currency.")
ErrorBox   == Element("error", "Error: negative amounts are not allowed.")
SuccessBox == Element("success", "Conversion complete!")

\* currency_info (lines 93-96); both symbols are U+00A5.
currency_info == [c \in {"CNY", "JPY"} |->
                    IF c = "CNY" THEN [symbol |-> "Y", name |-> "Renminbi"]
                                 ELSE [symbol |-> "Y", name |-> "Yen"]]

\* The three st.write lines of the result (lines 103-105).
AmountLine(amount) ==
  Element("write", "**USD amount:** $"
            \o FormatFixed(Abs(amount), amount < 0, 2, FALSE))
RateLine(target, r) ==
  Element("write", "**Current rate:** 1 USD = "
            \o FormatFixed(RoundHalfEven(Abs(r) \div 10, Abs(r) % 10, 10),
                           r < 0, 4, FALSE)
            \o " " \o target)
ConvertedLine(target, conv) ==
  Element("write", "**" \o currency_info[target].name \o " amount:** "
            \o currency_info[target].symbol
            \o FormatFixed(RoundHalfEven(conv.whole, conv.frac, RateScale),
                           conv.neg, 2, TRUE))

\* What Streamlit puts on the page for an exception main() does not catch.
ExceptionBox == Element("exception", "TypeError: unsupported operand type(s)")

\* converted_amount before line 90 has run.
NoProduct == [neg |-> FALSE, whole |-> 0, frac |-> 0]

NotSaved == [set |-> FALSE, currency |-> "CNY", amount |-> 0,
             pressed |-> FALSE, rate |-> Unbound, error |-> Unbound,
             output |-> <<>>]

----------------------------------------------------------------------------
(* The script run.                                                         *)

Init ==
  /\ pc = "Input"
  /\ target_currency = "CNY"      \* the selector's first option (line 63)
  /\ usd_amount = 10000           \* value=100.0 (line 70)
  /\ pressed = FALSE
  /\ response = NoResponse
  /\ rate = Unbound
  /\ error_msg = Unbound
  /\ converted_amount = NoProduct
  /\ output = <<>>
  /\ calls = 0
  /\ attempts = 0
  /\ saved = NotSaved

\* Lines 54-73: the title, the description, the selector and the number
\* input, whose values are whatever the user has set them to.
RenderInputs ==
  /\ pc = "Input"
  /\ \E c \in Options, a \in Amounts :
       /\ target_currency' = c
       /\ usd_amount' = a
  /\ output' = output \o <<Title, Intro>>
  /\ pc' = "Validating"
  /\ UNCHANGED <<pressed, response, rate, error_msg, converted_amount,
                 calls, attempts, saved>>

\* Validate without the return of line 78: the error is shown and the run
\* goes on to the button.
Validate_NoReturn ==
  /\ pc = "Validating"
  /\ output' = IF usd_amount < 0 THEN Append(output, ErrorBox) ELSE output
  /\ pc' = "Button"
  /\ UNCHANGED <<target_currency, usd_amount, pressed, response, rate,
                 error_msg, converted_amount, calls, attempts, saved>>

\* Lines 76-78: a negative amount shows the error and returns.
Validate ==
  /\ pc = "Validating"
  /\ IF usd_amount < 0
       THEN /\ output' = Append(output, ErrorBox)
            /\ pc' = "Done"
       ELSE /\ output' = output
            /\ pc' = "Button"
  /\ UNCHANGED <<target_currency, usd_amount, pressed, response, rate,
                 error_msg, converted_amount, calls, attempts, saved>>

\* Line 81 with the button's value ignored: every valid run converts.
Button_Ignored ==
  /\ pc = "Button"
  /\ \E p \in BOOLEAN : pressed' = p
  /\ pc' = "Fetching"
  /\ UNCHANGED <<target_currency, usd_amount, response, rate, error_msg,
                 converted_amount, output, calls, attempts, saved>>

\* Line 81: st.button returns True in the run its click caused.
Button ==
  /\ pc = "Button"
  /\ \E p \in BOOLEAN :
       /\ pressed' = p
       /\ pc' = IF p THEN "Fetching" ELSE "Done"
  /\ UNCHANGED <<target_currency, usd_amount, response, rate, error_msg,
                 converted_amount, output, calls, attempts, saved>>

\* Fetch with a cache: once a conversion has been remembered, its rate and
\* message are returned without a network attempt.
Fetch_Cached ==
  /\ pc = "Fetching"
  /\ \E resp \in Responses :
       IF saved.set /\ saved.pressed
         THEN /\ response' = response
              /\ rate' = saved.rate
              /\ error_msg' = saved.error
              /\ attempts' = attempts
         ELSE /\ response' = resp
              /\ rate' = get_exchange_rate(target_currency, resp)[1]
              /\ error_msg' = get_exchange_rate(target_currency, resp)[2]
              /\ attempts' = attempts + 1
  /\ calls' = calls + 1
  /\ pc' = "Warn"
  /\ UNCHANGED <<target_currency, usd_amount, pressed, converted_amount,
                 output, saved>>

\* Lines 82-83 with lines 37-49: one call of get_exchange_rate, which makes
\* one urlopen attempt and returns either what the body holds or, from the
\* except clause, the default and the message.
Fetch ==
  /\ pc = "Fetching"
  /\ \E resp \in Responses :
       /\ response' = resp
       /\ rate' = get_exchange_rate(target_currency, resp)[1]
       /\ error_msg' = get_exchange_rate(target_currency, resp)[2]
  /\ calls' = calls + 1
  /\ attempts' = attempts + 1
  /\ pc' = "Warn"
  /\ UNCHANGED <<target_currency, usd_amount, pressed, converted_amount,
                 output, saved>>

\* Lines 86-87 without the test: the message, or "None", is always shown.
Warn_Always ==
  /\ pc = "Warn"
  /\ output' = Append(output, Element("warning",
                  IF error_msg.t = "str" THEN error_msg.s ELSE "None"))
  /\ pc' = "Convert"
  /\ UNCHANGED <<target_currency, usd_amount, pressed, response, rate,
                 error_msg, converted_amount, calls, attempts, saved>>

\* Lines 86-87.
Warn ==
  /\ pc = "Warn"
  /\ output' = IF Truthy(error_msg)
                 THEN Append(output, Element("warning", error_msg.s))
                 ELSE output
  /\ pc' = "Convert"
  /\ UNCHANGED <<target_currency, usd_amount, pressed, response, rate,
                 error_msg, converted_amount, calls, attempts, saved>>

\* Line 90 multiplying by the default rate instead of the rate returned.
Convert_DefaultRate ==
  /\ pc = "Convert"
  /\ IF IsNumber(rate)
       THEN /\ converted_amount' =
                 FloatMul(usd_amount, DefaultRate(target_currency))
            /\ output' = output
            /\ pc' = "Display"
       ELSE /\ converted_amount' = converted_amount
            /\ output' = Append(output, ExceptionBox)
            /\ pc' = "Crashed"
  /\ UNCHANGED <<target_currency, usd_amount, pressed, response, rate,
                 error_msg, calls, attempts, saved>>

\* Line 90: float * float; float * None, * str and * dict raise TypeError,
\* which nothing catches.
Convert ==
  /\ pc = "Convert"
  /\ IF IsNumber(rate)
       THEN /\ converted_amount' = FloatMul(usd_amount, rate.v)
            /\ output' = output
            /\ pc' = "Display"
       ELSE /\ converted_amount' = converted_amount
            /\ output' = Append(output, ExceptionBox)
            /\ pc' = "Crashed"
  /\ UNCHANGED <<target_currency, usd_amount, pressed, response, rate,
                 error_msg, calls, attempts, saved>>

\* Lines 93-105.
Display ==
  /\ pc = "Display"
  /\ output' = output \o
       << SuccessBox,
          AmountLine(usd_amount),
          RateLine(target_currency, rate.v),
          ConvertedLine(target_currency, converted_amount) >>
  /\ pc' = "Done"
  /\ UNCHANGED <<target_currency, usd_amount, pressed, response, rate,
                 error_msg, converted_amount, calls, attempts, saved>>

\* The run that just ended, as a record.
ThisRun == [set |-> TRUE, currency |-> target_currency, amount |-> usd_amount,
            pressed |-> pressed, rate |-> rate, error |-> error_msg,
            output |-> output]

\* A rerun that keeps the previous run's page: the new run's elements are
\* added below the old ones.
Rerun_KeepPage ==
  /\ pc \in {"Done", "Crashed"}
  /\ \E keep \in BOOLEAN : saved' = IF keep THEN ThisRun ELSE saved
  /\ pc' = "Input"
  /\ target_currency' = "CNY"
  /\ usd_amount' = 10000
  /\ pressed' = FALSE
  /\ response' = NoResponse
  /\ rate' = Unbound
  /\ error_msg' = Unbound
  /\ converted_amount' = NoProduct
  /\ output' = output
  /\ calls' = 0
  /\ attempts' = 0

\* Lines 108-109: the next interaction runs the script again from the top;
\* main()'s locals and the page of the previous run are gone.  The run that
\* ended may be remembered in `saved`, which no step of the script reads.
Rerun ==
  /\ pc \in {"Done", "Crashed"}
  /\ \E keep \in BOOLEAN : saved' = IF keep THEN ThisRun ELSE saved
  /\ pc' = "Input"
  /\ target_currency' = "CNY"
  /\ usd_amount' = 10000
  /\ pressed' = FALSE
  /\ response' = NoResponse
  /\ rate' = Unbound
  /\ error_msg' = Unbound
  /\ converted_amount' = NoProduct
  /\ output' = <<>>
  /\ calls' = 0
  /\ attempts' = 0

Next ==
  \/ RenderInputs
  \/ Validate
  \/ Button
  \/ Fetch
  \/ Warn
  \/ Convert
  \/ Display
  \/ Rerun

Spec == Init /\ [][Next]_vars

----------------------------------------------------------------------------
(* Vocabulary of the properties.                                           *)

\* The run has returned from get_exchange_rate.
Fetched == pc \in {"Warn", "Convert", "Display", "Crashed"}
             \/ (pc = "Done" /\ pressed)

\* The failures the specification lists: network error or timeout,
\* malformed JSON, no "rates" key, requested code missing.
FailureResponses == {NetError, NotJSON, NoRates, MissingCode}

\* The documented fallback: CNY -> 7.2, JPY -> 150.0, any other code -> 1.0.
Fallback(code) ==
  CASE code = "CNY" -> 720000
    [] code = "JPY" -> 15000000
    [] OTHER        -> 100000

\* A body of the shape {"rates": {<CODE>: <float>}} for the requested code.
WellShaped(resp) ==
  /\ resp.net = "ok"
  /\ resp.json
  /\ resp.hasRates
  /\ resp.hasCode
  /\ resp.value.t = "float"

HasKind(out, kind) == \E i \in DOMAIN out : out[i].kind = kind

ResultShown == HasKind(output, "success")

----------------------------------------------------------------------------
\* C1: in a run whose amount is negative nothing is fetched, nothing is
\* converted, and the page holds, after the title and the description, the
\* validation error and nothing else.
C1_NegativeAmountOnlyError ==
  (pc # "Input" /\ usd_amount < 0) =>
     /\ pc \in {"Validating", "Done"}
     /\ calls = 0
     /\ attempts = 0
     /\ response = NoResponse
     /\ rate = Unbound
     /\ error_msg = Unbound
     /\ converted_amount = NoProduct
     /\ output = IF pc = "Done" THEN <<Title, Intro, ErrorBox>>
                                ELSE <<Title, Intro>>

\* A run with amount -5.00 has ended showing the validation error.
C1_Witness ==
  /\ pc = "Done"
  /\ usd_amount = -500
  /\ Len(output) = 3
  /\ output[3].kind = "error"

----------------------------------------------------------------------------
\* C2: whenever the lookup fails (network error or timeout, malformed JSON,
\* missing key) get_exchange_rate returns the fallback of the requested code
\* (CNY 7.2, JPY 150.0, any other 1.0) with a non-empty message, and the
\* triggered conversion ends showing the warning and a result computed with
\* that fallback.  The first conjunct is about the call that is about to be
\* made, for every code it could be given.
C2_FailureUsesFallback ==
  /\ pc = "Fetching" =>
       \A code \in AllCodes, resp \in FailureResponses :
         LET got == get_exchange_rate(code, resp)
         IN  /\ got[1] = PyNum(Fallback(code))
             /\ got[2].t = "str"
             /\ got[2].s # ""
  /\ (Fetched /\ response \in FailureResponses) =>
       /\ rate = PyNum(Fallback(target_currency))
       /\ error_msg.t = "str"
       /\ error_msg.s # ""
       /\ pc # "Crashed"
       /\ pc = "Done" =>
            output = << Title, Intro,
                        Element("warning", error_msg.s),
                        SuccessBox,
                        AmountLine(usd_amount),
                        RateLine(target_currency, Fallback(target_currency)),
                        ConvertedLine(target_currency,
                          FloatMul(usd_amount, Fallback(target_currency))) >>

\* Scenario 2: 100.00 USD to JPY with the network down ends with the warning
\* and 15,000.00.
C2_Witness ==
  /\ pc = "Done"
  /\ response = NetError
  /\ target_currency = "JPY"
  /\ usd_amount = 10000
  /\ Len(output) = 7
  /\ output[3].kind = "warning"
  /\ output[6].text = "**Current rate:** 1 USD = 150.0000 JPY"
  /\ output[7].text = "**Yen amount:** Y15,000.00"

----------------------------------------------------------------------------
\* C3: get_exchange_rate returns a live rate with no error only for a body
\* of the shape {"rates": {<CODE>: <float>}}; every other body yields the
\* fallback rate and an error message.
C3_OnlyWellShapedIsLive ==
  Fetched =>
    IF WellShaped(response)
      THEN rate = response.value /\ error_msg = PyNone
      ELSE /\ rate = PyNum(Fallback(target_currency))
           /\ error_msg.t = "str"
           /\ error_msg.s # ""

----------------------------------------------------------------------------
\* C4: a conversion triggered with an amount >= 0 never ends in an unhandled
\* error, and when it has ended the success message and the converted
\* amount are on the page.
C4_ConversionCompletes ==
  (pressed /\ usd_amount >= 0) =>
     /\ pc # "Crashed"
     /\ pc = "Done" =>
          /\ ResultShown
          /\ output[Len(output)].kind = "write"

----------------------------------------------------------------------------
(* The numbers a finished conversion shows.                                *)

\* The result's last line shows the amount d (in cents) in the currency.
ShowsConverted(d) ==
  output[Len(output)].text =
    "**" \o currency_info[target_currency].name \o " amount:** "
      \o currency_info[target_currency].symbol \o FormatFixed(d, FALSE, 2, TRUE)

\* The result's rate line shows the rate q (in 1e-4).
ShowsRate(q) ==
  output[Len(output) - 1].text =
    "**Current rate:** 1 USD = " \o FormatFixed(q, FALSE, 4, FALSE)
      \o " " \o target_currency

\* A triggered conversion with a positive rate has ended.
PositiveResult ==
  /\ pc = "Done"
  /\ pressed
  /\ IsNumber(rate)
  /\ rate.v > 0

\* C5 as stated: the amount shown equals a * r, and r is exactly the rate
\* shown.
C5_ShownEqualsProduct ==
  PositiveResult =>
    LET p == FloatMul(usd_amount, rate.v)
    IN  /\ converted_amount = p
        /\ p.frac = 0
        /\ ShowsConverted(p.whole)
        /\ rate.v % 10 = 0
        /\ ShowsRate(rate.v \div 10)

\* C5 amended: the conversion computes a * r with the rate r it was given;
\* the amount shown is that product rounded to two decimals (within half a
\* cent of a * r) and the rate shown is r rounded to four decimals (within
\* 0.00005 of r).
C5_ShownIsRoundedProduct ==
  PositiveResult =>
    LET p == FloatMul(usd_amount, rate.v)
    IN  /\ converted_amount = p
        /\ \E d \in {p.whole, p.whole + 1} :
             /\ d = p.whole     => 2 * p.frac <= RateScale
             /\ d = p.whole + 1 => 2 * p.frac >= RateScale
             /\ ShowsConverted(d)
        /\ \E q \in {rate.v \div 10, (rate.v \div 10) + 1} :
             /\ 2 * Abs(10 * q - rate.v) <= 10
             /\ ShowsRate(q)

\* 0.01 USD at the rate 7.2 is 0.072 and is shown as 0.07.
C5_Witness ==
  /\ PositiveResult
  /\ usd_amount = 1
  /\ rate = PyNum(720000)
  /\ converted_amount = [neg |-> FALSE, whole |-> 7, frac |-> 20000]
  /\ ShowsConverted(7)
  /\ ShowsRate(72000)

----------------------------------------------------------------------------
\* C6: a triggered conversion with a valid amount makes exactly one call of
\* get_exchange_rate and that call exactly one network attempt, also after a
\* failure; before the trigger there is none; and the rate of a conversion
\* is what its own attempt produced (the body's value, or the fallback when
\* the attempt failed), whatever an earlier conversion used.
C6_OneFreshAttempt ==
  /\ Fetched =>
       /\ calls = 1
       /\ attempts = 1
       /\ response \in Responses
       /\ rate = IF response \in FailureResponses
                   THEN PyNum(Fallback(target_currency))
                   ELSE response.value
       /\ pc \in {"Display", "Done"} =>
            converted_amount = FloatMul(usd_amount, rate.v)
  /\ ~Fetched => calls = 0 /\ attempts = 0

\* A conversion has ended with a rate other than the one a remembered
\* earlier conversion of the same currency used.
C6_Witness ==
  /\ pc = "Done"
  /\ pressed
  /\ saved.set
  /\ saved.pressed
  /\ saved.currency = target_currency
  /\ saved.rate = PyNum(710000)
  /\ response = NetError
  /\ rate = PyNum(Fallback(target_currency))
  /\ calls = 1
  /\ attempts = 1

----------------------------------------------------------------------------
\* C7: a conversion that repeats the amount and the currency of an earlier
\* one, and whose fetcher returns what it returned then, puts the same
\* elements on the page, whatever ran in between.
C7_Idempotent ==
  ( /\ pc \in {"Done", "Crashed"}
    /\ pressed
    /\ saved.set
    /\ saved.pressed
    /\ saved.currency = target_currency
    /\ saved.amount = usd_amount
    /\ saved.rate = rate
    /\ saved.error = error_msg )
  => output = saved.output

\* Scenario 1 twice: 100.00 USD to CNY at 7.1 shows 710.00 both times.
C7_Witness ==
  /\ pc = "Done"
  /\ pressed
  /\ saved.set
  /\ saved.pressed
  /\ saved.currency = "CNY"
  /\ target_currency = "CNY"
  /\ saved.amount = 10000
  /\ usd_amount = 10000
  /\ saved.rate = PyNum(710000)
  /\ rate = PyNum(710000)
  /\ saved.error = PyNone
  /\ error_msg = PyNone
  /\ Len(output) = 6
  /\ output[5].text = "**Current rate:** 1 USD = 7.1000 CNY"
  /\ output[6].text = "**Renminbi amount:** Y710.00"
  /\ output = saved.output

----------------------------------------------------------------------------
\* C8: the rate get_exchange_rate returns is a positive number, whatever
\* the code and the outcome of the network call.
C8_RatePositive ==
  Fetched => IsNumber(rate) /\ rate.v > 0

----------------------------------------------------------------------------
(* C9: Input -> Validating -> Result.                                      *)

\* Nothing of an earlier run is left.
Fresh ==
  /\ pressed = FALSE
  /\ response = NoResponse
  /\ rate = Unbound
  /\ error_msg = Unbound
  /\ converted_amount = NoProduct
  /\ output = <<>>
  /\ calls = 0
  /\ attempts = 0

C9_States ==
  /\ pc = "Input" => Fresh
  /\ (pc \in {"Fetching", "Warn", "Convert", "Display", "Crashed"}
        \/ calls > 0 \/ attempts > 0 \/ ResultShown)
       => (usd_amount >= 0 /\ pressed)
  /\ (pc = "Done" /\ usd_amount >= 0 /\ ~pressed) =>
       /\ calls = 0
       /\ attempts = 0
       /\ rate = Unbound
       /\ output = <<Title, Intro>>

C9_Steps ==
  /\ pc = "Input" => pc' = "Validating"
  /\ pc = "Validating" => pc' \in {"Button", "Done"}
  /\ pc \in {"Done", "Crashed"} => (pc' = "Input" /\ Fresh')
  /\ pc' = "Fetching" => (pc = "Button" /\ usd_amount >= 0 /\ pressed')
  /\ calls' # calls => (pc = "Fetching" \/ pc' = "Input")

\* C9: every interaction starts in Input with nothing of the earlier run
\* left; the fetch and the result are reached only through a passed
\* validation (amount >= 0) and a pressed trigger of the same run; a valid
\* run without the trigger fetches nothing and shows no result; and after a
\* run has ended the next step is a fresh Input.
C9_ThreeStateMachine == []C9_States /\ [][C9_Steps]_vars

\* After a remembered conversion that showed a result, a run with a valid
\* amount and no trigger has ended with only the title and the description.
C9_Witness ==
  /\ pc = "Done"
  /\ usd_amount >= 0
  /\ ~pressed
  /\ output = <<Title, Intro>>
  /\ saved.set
  /\ saved.pressed
  /\ HasKind(saved.output, "success")

----------------------------------------------------------------------------
\* C10: get_exchange_rate returns a non-empty message exactly when the
\* lookup failed, and then the rate is the fallback; it returns no message
\* exactly when the rate is the body's; the conversion shows a warning if
\* and only if the lookup failed, and shows it before the success message
\* and the result lines.
C10_WarningIffFailed ==
  /\ Fetched =>
       /\ (error_msg.t = "str" /\ error_msg.s # "")
            <=> response \in FailureResponses
       /\ error_msg = PyNone <=> response \notin FailureResponses
       /\ response \in FailureResponses =>
            rate = PyNum(Fallback(target_currency))
       /\ response \notin FailureResponses => rate = response.value
  /\ (Fetched /\ pc # "Warn") =>
       (HasKind(output, "warning") <=> response \in FailureResponses)
  /\ ~Fetched => ~HasKind(output, "warning")
  /\ \A i, j \in DOMAIN output :
       (output[i].kind = "warning" /\ j > 2
          /\ output[j].kind \in {"success", "write"}) => i < j

\* A conversion whose lookup failed has ended: the warning is the third
\* element and the success message the fourth.
C10_Witness ==
  /\ pc = "Done"
  /\ response = MissingCode
  /\ Len(output) = 7
  /\ output[3] = Element("warning", error_msg.s)
  /\ output[4] = SuccessBox

============================================================================
